---- MODULE Spec2Model ----
(***************************************************************************)
(* Model of the SveaPark client: the two gateway functions of              *)
(* services/geminiService.ts (analyzeParkingSign, editImage), the          *)
(* ScannerView component (camera lifecycle, capture, upload, analysis) and *)
(* the EditView component (photo select, prompt, edit, reset).             *)
(*                                                                         *)
(* Three specifications share the variables:                               *)
(*   SpecGateway  one call of a gateway function on a bounded response     *)
(*   SpecScanner  one ScannerView instance from construction to unmount    *)
(*   SpecEdit     one EditView instance                                    *)
(***************************************************************************)
EXTENDS Integers, Sequences, FiniteSets, Bags, TLC

(* ------------------------------ bounds --------------------------------- *)
\* longest model response text, in tokens
MaxTextLen == 4
\* longest list of content parts of an edit response
MaxParts == 3
\* distinct inline image payloads the edit model may return
MaxData == 2
\* startCamera calls that may be pending at the same time
MaxStarts == 2
\* media streams that may be open (tracks not stopped) at the same time
MaxStreams == 2
\* FileReader reads that may be pending at the same time (per view)
MaxReaders == 1
\* gateway calls that may be in flight at the same time (per view)
MaxCalls == 2
\* distinct still images (captured frames or selected files)
MaxImages == 2

(* --------------------------- nullable values --------------------------- *)
\* null / undefined of a reference-typed value; a present value x is <<x>>
Null == <<>>
Some(x) == <<x>>
\* null of string-typed state (error: string | null)
NoError == "null"
\* null of image-typed state and of streamRef.current
NoImage == 0
NoStream == 0

(* ======================================================================= *)
(*                     services/geminiService.ts                           *)
(* ======================================================================= *)

\* keys the response schema marks as required
RequiredFields == {"status", "summary", "details"}

\* A response text is a sequence of tokens: "ws" is a whitespace run, a key
\* token stands for one  "key": value  member, "junk" for any other text.
Tokens == {"ws", "{", "}", "junk", "null"} \cup RequiredFields

Texts == UNION {[1..n -> Tokens] : n \in 0..MaxTextLen}

\* what generateContent produces for the analysis call: it throws, or it
\* returns a response whose .text is undefined (Null) or a string (Some)
AnalyzeInputs ==
  {[throws |-> TRUE, text |-> Null]} \cup
  {[throws |-> FALSE, text |-> t] : t \in {Null} \cup {Some(s) : s \in Texts}}

RECURSIVE trimStart(_)
trimStart(s) == IF s # <<>> /\ Head(s) = "ws" THEN trimStart(Tail(s)) ELSE s

RECURSIVE trimEnd(_)
trimEnd(s) ==
  IF s # <<>> /\ s[Len(s)] = "ws" THEN trimEnd(SubSeq(s, 1, Len(s) - 1)) ELSE s

\* String.prototype.trim
trim(s) == trimEnd(trimStart(s))

IsSignificant(t) == t # "ws"

\* JSON.parse: [ok, isNull, keys]; ok = FALSE is a thrown SyntaxError
JSONparse(s) ==
  LET body == SelectSeq(s, IsSignificant)
      n == Len(body)
  IN  IF body = <<"null">>
        THEN [ok |-> TRUE, isNull |-> TRUE, keys |-> {}]
      ELSE IF /\ n >= 2
              /\ body[1] = "{"
              /\ body[n] = "}"
              /\ \A i \in 2..(n - 1) : body[i] \in RequiredFields
        THEN [ok |-> TRUE, isNull |-> FALSE,
              keys |-> {body[i] : i \in 2..(n - 1)}]
      ELSE [ok |-> FALSE, isNull |-> FALSE, keys |-> {}]

AnalyzeFailure == "Failed to analyze sign"

Resolved(v) == [ok |-> TRUE, value |-> v, error |-> NoError]
Rejected(e) == [ok |-> FALSE, value |-> Null, error |-> e]

\* the settled promise of analyzeParkingSign(base64Image) for one outcome of
\* generateContent; base64Image.split on a null argument throws inside the try
analyzeParkingSign(base64Image, in) ==
  IF base64Image = NoImage THEN Rejected(AnalyzeFailure)
  ELSE IF in.throws THEN Rejected(AnalyzeFailure)
  ELSE IF in.text = Null THEN Rejected(AnalyzeFailure)
  ELSE LET jsonStr == trim(in.text[1])
           parsed == JSONparse(IF jsonStr = <<>> THEN <<"{", "}">> ELSE jsonStr)
       IN  IF parsed.ok
             THEN Resolved(Some([isNull |-> parsed.isNull, keys |-> parsed.keys]))
             ELSE Rejected(AnalyzeFailure)

\* a content part: a text part, or an inline image part carrying data d
TextPart == [inline |-> FALSE, data |-> 0]
ImagePart(d) == [inline |-> TRUE, data |-> d]
Parts == {TextPart} \cup {ImagePart(d) : d \in 1..MaxData}
PartLists == UNION {[1..n -> Parts] : n \in 0..MaxParts}

\* what generateContent produces for the edit call: it throws, or returns a
\* response whose candidates are undefined (Null), empty, or hold a first
\* candidate with a list of parts
EditInputs ==
  {[throws |-> TRUE, candidates |-> Null]} \cup
  {[throws |-> FALSE, candidates |-> c] :
      c \in {Null} \cup {Some(ps) : ps \in PartLists}}

EditFailure == "Failed to edit image"
NoImageFailure == "No image data returned from model"

\* a scan that keeps the last inline part instead of stopping at the first
LastInline(ps) ==
  IF \E i \in 1..Len(ps) : ps[i].inline
    THEN CHOOSE i \in 1..Len(ps) :
           ps[i].inline /\ \A j \in (i + 1)..Len(ps) : ~ps[j].inline
    ELSE 0

\* the for-loop over candidate.content.parts: index of the part returned
FirstInline(ps) ==
  IF \E i \in 1..Len(ps) : ps[i].inline
    THEN CHOOSE i \in 1..Len(ps) :
           ps[i].inline /\ \A j \in 1..(i - 1) : ~ps[j].inline
    ELSE 0

\* the try block of editImage: a returned data URL, or a thrown message
editImageTry(in) ==
  IF in.throws THEN [thrown |-> TRUE, message |-> "transport", url |-> Null]
  ELSE LET ps == IF in.candidates = Null THEN <<>> ELSE in.candidates[1]
           k == FirstInline(ps)
       IN  IF k # 0
             THEN [thrown |-> FALSE, message |-> NoError,
                   url |-> Some(<<"data:image/png;base64,", ps[k].data>>)]
             ELSE [thrown |-> TRUE, message |-> NoImageFailure, url |-> Null]

\* editImage: the catch block replaces whatever was thrown
editImage(in) ==
  LET r == editImageTry(in)
  IN  IF r.thrown THEN Rejected(EditFailure) ELSE Resolved(r.url)


(* ======================================================================= *)
(*                               state                                     *)
(* ======================================================================= *)
VARIABLES
  \* SpecGateway: the call under test and its settled promise
  gwCall, gwOutcome,
  \* EditView: useState hooks, pending FileReaders, editImage calls in flight
  originalImage, editedImage, prompt, editLoading, editError,
  editReaders, editCalls,
  \* EditView: the settled promise handed to handleEdit by the step that ran
  \* last, Pending after any other step
  editLast,
  \* ScannerView: lifecycle of the instance and browser support
  phase, supported,
  \* ScannerView: useState hooks
  loading, result, error, isCameraReady, capturedImage, cameraNotFound,
  \* ScannerView: streamRef.current, and the streams of the device whose
  \* tracks have not been stopped
  streamRef, live,
  \* ScannerView: startCamera calls (pending or finished), pending
  \* FileReaders, analyzeParkingSign calls in flight
  camera, readers, analyses,
  \* ScannerView: the handler step that ran last
  last

gwVars == <<gwCall, gwOutcome>>
editVars == <<originalImage, editedImage, prompt, editLoading, editError,
              editReaders, editCalls, editLast>>
scanVars == <<phase, supported, loading, result, error, isCameraReady,
              capturedImage, cameraNotFound, streamRef, live, camera, readers,
              analyses, last>>
vars == <<gwCall, gwOutcome, originalImage, editedImage, prompt, editLoading,
          editError, editReaders, editCalls, editLast, phase, supported, loading, result,
          error, isCameraReady, capturedImage, cameraNotFound, streamRef, live,
          camera, readers, analyses, last>>

Images == 1..MaxImages

(* ======================================================================= *)
(*          SpecGateway: one gateway call on a bounded response            *)
(* ======================================================================= *)
NoCall == [fn |-> "none", img |-> NoImage,
           an |-> [throws |-> TRUE, text |-> Null],
           ed |-> [throws |-> TRUE, candidates |-> Null]]
Pending == [settled |-> FALSE, ok |-> FALSE, value |-> Null, error |-> NoError]
Settled(o) == [settled |-> TRUE, ok |-> o.ok, value |-> o.value, error |-> o.error]

GatewayCalls ==
  {[fn |-> "analyzeParkingSign", img |-> b, an |-> i, ed |-> NoCall.ed] :
      b \in {NoImage, 1}, i \in AnalyzeInputs}
  \cup {[fn |-> "editImage", img |-> 1, an |-> NoCall.an, ed |-> i] :
      i \in EditInputs}

\* the promise of analyzeParkingSign settles
AnalyzeSettles ==
  /\ gwCall.fn = "analyzeParkingSign"
  /\ ~gwOutcome.settled
  /\ gwOutcome' = Settled(analyzeParkingSign(gwCall.img, gwCall.an))
  /\ UNCHANGED <<gwCall, editVars, scanVars>>

\* the promise of editImage settles
EditImageSettles ==
  /\ gwCall.fn = "editImage"
  /\ ~gwOutcome.settled
  /\ gwOutcome' = Settled(editImage(gwCall.ed))
  /\ UNCHANGED <<gwCall, editVars, scanVars>>

(* ======================================================================= *)
(*                       EditView (unnamed/part_003)                       *)
(* ======================================================================= *)
EditViewFailure == "AI was unable to edit the image. Try a simpler prompt."

\* values of the prompt textarea: token sequences of whitespace and text
Prompts == {<<>>, <<"ws">>, <<"a">>, <<"ws", "a">>}
\* the three suggestion chips, all non-blank
Suggestions == {<<"a">>}

\* model responses the edit call of the view may receive
ViewEditResponses ==
  { [throws |-> TRUE, candidates |-> Null],
    [throws |-> FALSE, candidates |-> Null],
    [throws |-> FALSE, candidates |-> Some(<<TextPart>>)],
    [throws |-> FALSE, candidates |-> Some(<<TextPart, ImagePart(1)>>)],
    [throws |-> FALSE, candidates |-> Some(<<ImagePart(2), ImagePart(1)>>)] }

EditInit ==
  /\ originalImage = NoImage
  /\ editedImage = Null
  /\ prompt = <<>>
  /\ editLoading = FALSE
  /\ editError = NoError
  /\ editReaders = EmptyBag
  /\ editCalls = EmptyBag
  /\ editLast = Pending

\* onChange of the file input, rendered only while no original is held
handleFileChange ==
  /\ originalImage = NoImage
  /\ BagCardinality(editReaders) < MaxReaders
  /\ \E file \in Images \cup {NoImage} :
       IF file = NoImage
         THEN UNCHANGED editReaders
         ELSE editReaders' = editReaders (+) SetToBag({file})
  /\ editLast' = Pending
  /\ UNCHANGED <<originalImage, editedImage, prompt, editLoading, editError,
                 editCalls, gwVars, scanVars>>

\* reader.onloadend: reader.result is the data URL, or null after a read error
EditReaderLoadEnd ==
  \E file \in BagToSet(editReaders), readOk \in BOOLEAN :
    /\ editReaders' = editReaders (-) SetToBag({file})
    /\ originalImage' = IF readOk THEN file ELSE NoImage
    /\ editedImage' = Null
    /\ editError' = NoError
    /\ editLast' = Pending
    /\ UNCHANGED <<prompt, editLoading, editCalls, gwVars, scanVars>>

\* onChange of the textarea
PromptChange ==
  /\ originalImage # NoImage
  /\ \E p \in Prompts : prompt' = p
  /\ editLast' = Pending
  /\ UNCHANGED <<originalImage, editedImage, editLoading, editError,
                 editReaders, editCalls, gwVars, scanVars>>

\* onClick of a suggestion chip
SuggestionClick ==
  /\ originalImage # NoImage
  /\ \E p \in Suggestions : prompt' = p
  /\ editLast' = Pending
  /\ UNCHANGED <<originalImage, editedImage, editLoading, editError,
                 editReaders, editCalls, gwVars, scanVars>>

\* an Apply Changes button that stays enabled while a call is pending
ApplyEnabledWhileLoading == originalImage # NoImage /\ ~(trim(prompt) = <<>>)

\* the Apply Changes button is rendered and not disabled
ApplyEnabled == originalImage # NoImage /\ ~(editLoading \/ trim(prompt) = <<>>)

\* handleEdit up to its await
handleEdit ==
  /\ ApplyEnabled
  /\ ~(originalImage = NoImage \/ trim(prompt) = <<>>)
  /\ BagCardinality(editCalls) < MaxCalls
  /\ editLoading' = TRUE
  /\ editError' = NoError
  /\ editCalls' = editCalls (+) SetToBag({originalImage})
  /\ editLast' = Pending
  /\ UNCHANGED <<originalImage, editedImage, prompt, editReaders, gwVars, scanVars>>

\* a continuation that clears loading at the end of the try block only
handleEditSettlesNoFinally ==
  \E src \in BagToSet(editCalls), in \in ViewEditResponses :
    LET out == editImage(in)
    IN  /\ editCalls' = editCalls (-) SetToBag({src})
        /\ IF out.ok
             THEN /\ editedImage' = Some([src |-> src, url |-> out.value[1]])
                  /\ editLoading' = FALSE
                  /\ UNCHANGED editError
             ELSE /\ editError' = EditViewFailure
                  /\ UNCHANGED <<editedImage, editLoading>>
        /\ editLast' = Settled(out)
        /\ UNCHANGED <<originalImage, prompt, editReaders, gwVars, scanVars>>

\* handleEdit after its await: try / catch / finally
handleEditSettles ==
  \E src \in BagToSet(editCalls), in \in ViewEditResponses :
    LET out == editImage(in)
    IN  /\ editCalls' = editCalls (-) SetToBag({src})
        /\ IF out.ok
             THEN /\ editedImage' = Some([src |-> src, url |-> out.value[1]])
                  /\ UNCHANGED editError
             ELSE /\ editError' = EditViewFailure
                  /\ UNCHANGED editedImage
        /\ editLoading' = FALSE
        /\ editLast' = Settled(out)
        /\ UNCHANGED <<originalImage, prompt, editReaders, gwVars, scanVars>>

\* onClick of Start Over
reset ==
  /\ originalImage # NoImage
  /\ originalImage' = NoImage
  /\ editedImage' = Null
  /\ prompt' = <<>>
  /\ editError' = NoError
  /\ editLast' = Pending
  /\ UNCHANGED <<editLoading, editReaders, editCalls, gwVars, scanVars>>

(* ======================================================================= *)
(*                     ScannerView (unnamed/part_001)                      *)
(* ======================================================================= *)
ErrUnsupported == "Your browser does not support camera access."
ErrNoCamera == "No camera found on this device."
ErrPermission == "Camera permission denied. Please enable it in your settings."
ErrGeneric == "Unable to access camera. Please use the gallery instead."
ErrAnalysis == "AI could not interpret the sign. Ensure it's well-lit and clearly visible."

\* err.name of a rejected getUserMedia
ErrNames == {"NotFoundError", "DevicesNotFoundError", "NotAllowedError",
             "PermissionDeniedError", "NotReadableError"}

\* the if / else-if chain of the outer catch of startCamera
cameraError(name) ==
  IF name = "NotFoundError" \/ name = "DevicesNotFoundError" THEN ErrNoCamera
  ELSE IF name = "NotAllowedError" \/ name = "PermissionDeniedError"
    THEN ErrPermission
  ELSE ErrGeneric

\* model responses the analysis call of the view may receive
ScannerResponses ==
  { [throws |-> TRUE, text |-> Null],
    [throws |-> FALSE, text |-> Some(<<>>)],
    [throws |-> FALSE, text |-> Some(<<"junk">>)],
    [throws |-> FALSE, text |-> Some(<<"null">>)],
    [throws |-> FALSE, text |-> Some(<<"{", "status", "summary", "details", "}">>)],
    [throws |-> FALSE, text |-> Some(<<"{", "summary", "details", "}">>)],
    [throws |-> FALSE, text |-> Some(<<"{", "status", "summary", "}">>)] }

StreamIds == 1..MaxStreams
\* the handler step that ran last: for a finished startCamera call the
\* number of fallback getUserMedia calls it made and the err.name it caught;
\* for processImage's catch and handleReset the cameraNotFound flag shown
\* before the step and whether startCamera was called
NoOp == [op |-> "init", fallbacks |-> 0, cnf |-> FALSE, started |-> FALSE,
         name |-> ""]
Op(o) == [NoOp EXCEPT !.op = o]

\* the component instance as one record, so that handlers compose in order
S ==
  [phase |-> phase, supported |-> supported, loading |-> loading,
   result |-> result, error |-> error, isCameraReady |-> isCameraReady,
   capturedImage |-> capturedImage, cameraNotFound |-> cameraNotFound,
   streamRef |-> streamRef, live |-> live, camera |-> camera,
   readers |-> readers, analyses |-> analyses, last |-> last]

Commit(s) ==
  /\ phase' = s.phase
  /\ supported' = s.supported
  /\ loading' = s.loading
  /\ result' = s.result
  /\ error' = s.error
  /\ isCameraReady' = s.isCameraReady
  /\ capturedImage' = s.capturedImage
  /\ cameraNotFound' = s.cameraNotFound
  /\ streamRef' = s.streamRef
  /\ live' = s.live
  /\ camera' = s.camera
  /\ readers' = s.readers
  /\ analyses' = s.analyses
  /\ last' = s.last
  /\ UNCHANGED <<gwVars, editVars>>

\* a useState setter: React drops updates of an unmounted component
set(s, hook, v) == IF s.phase = "mounted" THEN [s EXCEPT ![hook] = v] ELSE s

\* videoRef.current: the <video> is rendered while mounted and the camera is
\* not flagged unavailable; React nulls the ref when the element goes away
videoRef(s) == s.phase = "mounted" /\ ~s.cameraNotFound

\* a stopCamera that releases the stream but leaves isCameraReady set
stopCameraKeepsReady(s) ==
  IF s.streamRef # NoStream
    THEN [s EXCEPT !.live = @ \ {s.streamRef}, !.streamRef = NoStream]
    ELSE s

stopCamera(s) ==
  LET s1 == IF s.streamRef # NoStream
              THEN [s EXCEPT !.live = @ \ {s.streamRef}, !.streamRef = NoStream]
              ELSE s
  IN  set(s1, "isCameraReady", FALSE)

\* the model can follow one more startCamera call
CanStart(s) == ~s.supported \/ BagCardinality(s.camera) < MaxStarts

\* startCamera up to its first await
startCamera(s) ==
  LET s1 == set(set(s, "cameraNotFound", FALSE), "error", NoError)
  IN  IF ~s.supported
        THEN set(set(s1, "error", ErrUnsupported), "cameraNotFound", TRUE)
        ELSE LET s2 == stopCamera(s1)
             IN  [s2 EXCEPT !.camera = @ (+) SetToBag({[pc |-> "preferred",
                                                        fallbacks |-> 0]})]

FreeStream(s) == CHOOSE i \in StreamIds \ s.live : \A j \in StreamIds \ s.live : i <= j

\* startCamera after a getUserMedia of call c resolved with a new stream
acquired(s, c) ==
  LET id == FreeStream(s)
      s1 == [s EXCEPT !.live = @ \cup {id}, !.camera = @ (-) SetToBag({c})]
  IN  IF videoRef(s)
        THEN set(set([s1 EXCEPT !.streamRef = id], "isCameraReady", TRUE),
                 "error", NoError)
        ELSE s1

\* the first getUserMedia (preferred constraints) resolves
PreferredResolves ==
  \E c \in BagToSet(camera) :
    /\ c.pc = "preferred"
    /\ StreamIds \ live # {}
    /\ Commit([acquired(S, c) EXCEPT
                 !.last = [Op("gumResolved") EXCEPT !.fallbacks = c.fallbacks]])

\* the first getUserMedia rejects: the inner catch calls the fallback
PreferredRejects ==
  \E c \in BagToSet(camera) :
    /\ c.pc = "preferred"
    /\ Commit([S EXCEPT
                 !.camera = (@ (-) SetToBag({c})) (+)
                            SetToBag({[pc |-> "fallback",
                                       fallbacks |-> c.fallbacks + 1]}),
                 !.last = Op("gumFallback")])

\* the fallback getUserMedia (video: true) resolves
FallbackResolves ==
  \E c \in BagToSet(camera) :
    /\ c.pc = "fallback"
    /\ StreamIds \ live # {}
    /\ Commit([acquired(S, c) EXCEPT
                 !.last = [Op("gumResolved") EXCEPT !.fallbacks = c.fallbacks]])

\* the fallback rejects: e2 is re-thrown to the outer catch
FallbackRejects ==
  \E c \in BagToSet(camera), name \in ErrNames :
    /\ c.pc = "fallback"
    /\ LET s1 == [S EXCEPT !.camera = @ (-) SetToBag({c})]
           s2 == set(set(s1, "cameraNotFound", TRUE), "error", cameraError(name))
       IN  Commit([s2 EXCEPT !.last = [Op("gumFailed") EXCEPT
                                         !.fallbacks = c.fallbacks,
                                         !.name = name]])

\* useEffect on mount
Mount ==
  /\ phase = "created"
  /\ Commit([startCamera([S EXCEPT !.phase = "mounted"]) EXCEPT
               !.last = [Op("mount") EXCEPT !.started = TRUE]])

\* the cleanup of the effect; the hooks of the instance are discarded with
\* it, refs are detached and later setters are dropped
unmount(s) ==
  stopCamera([s EXCEPT !.phase = "unmounted", !.loading = FALSE,
                       !.result = Null, !.error = NoError,
                       !.isCameraReady = FALSE, !.capturedImage = NoImage,
                       !.cameraNotFound = FALSE])

\* App switches to the edit tab
Unmount ==
  /\ phase = "mounted"
  /\ Commit([unmount(S) EXCEPT !.last = Op("unmount")])

\* processImage up to its await; cnf is cameraNotFound of the closure
processImage(s, base64, cnf) ==
  LET s1 == set(set(set(set(s, "capturedImage", base64), "loading", TRUE),
                    "error", NoError), "result", Null)
      s2 == stopCamera(s1)
  IN  [s2 EXCEPT !.analyses = @ (+) SetToBag({[img |-> base64, cnf |-> cnf]})]

\* the capture panel (gallery button and shutter) is rendered
CapturePanel(s) ==
  s.phase = "mounted" /\ s.result = Null /\ s.error = NoError /\ ~s.loading
  /\ ~s.cameraNotFound

\* the shutter can be pressed
CaptureEnabled(s) == CapturePanel(s) /\ s.isCameraReady

\* handleCapture: draws the frame and hands the still to processImage
handleCapture ==
  /\ CaptureEnabled(S)
  /\ videoRef(S)
  /\ BagCardinality(analyses) < MaxCalls
  /\ \E base64 \in Images :
       Commit([processImage(S, base64, cameraNotFound) EXCEPT
                 !.last = Op("capture")])

\* one of the three buttons that click the hidden file input is rendered
UploadAvailable(s) ==
  /\ s.phase = "mounted"
  /\ \/ s.cameraNotFound /\ s.capturedImage = NoImage
     \/ CapturePanel(s)
     \/ s.error # NoError

\* handleFileUpload: the reader's onloadend closes over this render
handleFileUpload ==
  /\ UploadAvailable(S)
  /\ BagCardinality(readers) < MaxReaders
  /\ \E file \in Images \cup {NoImage} :
       IF file = NoImage
         THEN Commit([S EXCEPT !.last = Op("fileSelect")])
         ELSE Commit([S EXCEPT
                !.readers = @ (+) SetToBag({[img |-> file, cnf |-> cameraNotFound]}),
                !.last = Op("fileSelect")])

\* the render after a commit: result.details.map throws on an object without
\* details, and React unmounts the tree on an uncaught render error
render(s) ==
  IF s.phase = "mounted" /\ s.result # Null /\ "details" \notin s.result[1].keys
    THEN unmount(s)
    ELSE s

\* processImage after its await resolved: setResult, finally setLoading
AnalysisResolves ==
  \E call \in BagToSet(analyses), in \in ScannerResponses :
    LET out == analyzeParkingSign(call.img, in)
        s1 == [S EXCEPT !.analyses = @ (-) SetToBag({call})]
        analysis == IF out.value[1].isNull
                      THEN Null
                      ELSE Some([of |-> call.img, keys |-> out.value[1].keys])
        s2 == set(set(s1, "result", analysis), "loading", FALSE)
    IN  /\ out.ok
        /\ Commit([render(s2) EXCEPT !.last = Op("analysisResolved")])

\* processImage after its await rejected: catch, then finally
analysisRejected(s, cnf) ==
  LET s1 == set(s, "error", ErrAnalysis)
      s2 == IF ~cnf THEN startCamera(s1) ELSE s1
  IN  set(s2, "loading", FALSE)

RejectedOp(cnf) ==
  [Op("analysisRejected") EXCEPT !.cnf = cameraNotFound, !.started = ~cnf]

\* reader.onloadend after a successful read: reader.result is the data URL
ReaderLoadEnd ==
  \E r \in BagToSet(readers) :
    /\ BagCardinality(analyses) < MaxCalls
    /\ LET s1 == [S EXCEPT !.readers = @ (-) SetToBag({r})]
       IN  Commit([processImage(s1, r.img, r.cnf) EXCEPT
                     !.last = Op("readerLoadEnd")])

\* reader.onloadend after a read error: reader.result is null, so the call of
\* analyzeParkingSign rejects before any other handler can run
ReaderLoadError ==
  \E r \in BagToSet(readers) :
    /\ r.cnf \/ CanStart(S)
    /\ ~analyzeParkingSign(NoImage, [throws |-> FALSE, text |-> Null]).ok
    /\ LET s1 == [S EXCEPT !.readers = @ (-) SetToBag({r})]
           s2 == processImage(s1, NoImage, r.cnf)
           s3 == [s2 EXCEPT !.analyses = s1.analyses]
       IN  Commit([analysisRejected(s3, r.cnf) EXCEPT !.last = RejectedOp(r.cnf)])

\* the analysis call in flight rejects
AnalysisRejects ==
  \E call \in BagToSet(analyses), in \in ScannerResponses :
    LET out == analyzeParkingSign(call.img, in)
        s1 == [S EXCEPT !.analyses = @ (-) SetToBag({call})]
    IN  /\ ~out.ok
        /\ call.cnf \/ CanStart(S)
        /\ Commit([analysisRejected(s1, call.cnf) EXCEPT
                     !.last = RejectedOp(call.cnf)])

\* Scan Another Sign, or Retry Camera of the error panel, is rendered
ResetAvailable(s) ==
  /\ s.phase = "mounted"
  /\ s.result # Null \/ (s.error # NoError /\ ~s.cameraNotFound)

\* a reset that restarts the camera whatever cameraNotFound says
handleResetUnguarded ==
  /\ ResetAvailable(S)
  /\ CanStart(S)
  /\ LET s1 == set(set(set(S, "capturedImage", NoImage), "result", Null),
                   "error", NoError)
     IN  Commit([startCamera(s1) EXCEPT !.last = [Op("reset") EXCEPT
                                                   !.cnf = cameraNotFound,
                                                   !.started = TRUE]])

\* onClick of Scan Another Sign and of Retry Camera
handleReset ==
  /\ ResetAvailable(S)
  /\ cameraNotFound \/ CanStart(S)
  /\ LET s1 == set(set(set(S, "capturedImage", NoImage), "result", Null),
                   "error", NoError)
         s2 == IF ~cameraNotFound THEN startCamera(s1) ELSE s1
     IN  Commit([s2 EXCEPT !.last = [Op("reset") EXCEPT
                                       !.cnf = cameraNotFound,
                                       !.started = ~cameraNotFound]])

(* ======================================================================= *)
(*                           specifications                                *)
(* ======================================================================= *)
GatewayIdle == gwCall = NoCall /\ gwOutcome = Pending

ScannerInit ==
  /\ phase = "created"
  /\ supported \in BOOLEAN
  /\ loading = FALSE
  /\ result = Null
  /\ error = NoError
  /\ isCameraReady = FALSE
  /\ capturedImage = NoImage
  /\ cameraNotFound = FALSE
  /\ streamRef = NoStream
  /\ live = {}
  /\ camera = EmptyBag
  /\ readers = EmptyBag
  /\ analyses = EmptyBag
  /\ last = NoOp

InitGateway ==
  /\ gwCall \in GatewayCalls
  /\ gwOutcome = Pending
  /\ EditInit
  /\ ScannerInit /\ supported

NextGateway == AnalyzeSettles \/ EditImageSettles

SpecGateway == InitGateway /\ [][NextGateway]_vars

InitEdit == GatewayIdle /\ EditInit /\ ScannerInit /\ supported

NextEdit ==
  \/ handleFileChange
  \/ EditReaderLoadEnd
  \/ PromptChange
  \/ SuggestionClick
  \/ handleEdit
  \/ handleEditSettles
  \/ reset

SpecEdit == InitEdit /\ [][NextEdit]_vars

InitScanner == GatewayIdle /\ EditInit /\ ScannerInit

NextScanner ==
  \/ Mount
  \/ Unmount
  \/ PreferredResolves
  \/ PreferredRejects
  \/ FallbackResolves
  \/ FallbackRejects
  \/ handleCapture
  \/ handleFileUpload
  \/ ReaderLoadEnd
  \/ ReaderLoadError
  \/ AnalysisResolves
  \/ AnalysisRejects
  \/ handleReset

SpecScanner == InitScanner /\ [][NextScanner]_vars

Init == InitGateway \/ InitEdit \/ InitScanner
Next == NextGateway \/ NextEdit \/ NextScanner
Spec == Init /\ [][Next]_vars

TypeOK ==
  /\ phase \in {"created", "mounted", "unmounted"}
  /\ loading \in BOOLEAN /\ isCameraReady \in BOOLEAN /\ cameraNotFound \in BOOLEAN
  /\ streamRef \in StreamIds \cup {NoStream}
  /\ live \subseteq StreamIds
  /\ capturedImage \in Images \cup {NoImage}
  /\ originalImage \in Images \cup {NoImage}
  /\ editLoading \in BOOLEAN

(* ======================================================================= *)
(*                               claims                                    *)
(* ======================================================================= *)

\* C1: at most one capture session is active at a time: the number of
\* acquired media streams whose tracks have not been stopped never exceeds one.
C1_AtMostOneOpenStream == Cardinality(live) <= 1

\* C2: once ScannerView has been unmounted no acquired media stream remains
\* un-stopped, also when a getUserMedia or an analysis call settles afterwards.
C2_ReleasedAfterUnmount == phase = "unmounted" => live = {}

\* C3: at most one analyzeParkingSign call is in flight per ScannerView.
C3_SingleFlightAnalysis == BagCardinality(analyses) <= 1

\* C4: while an analyzeParkingSign call is in flight the mounted view holds no
\* camera stream: streamRef is null and isCameraReady is false.
C4_ReleasedWhileSubmitted ==
  (phase = "mounted" /\ analyses # EmptyBag)
    => (streamRef = NoStream /\ ~isCameraReady)

\* C5: analyzeParkingSign resolves only with an object that has all of status,
\* summary and details; an empty, unparsable or incomplete response rejects.
C5_ResolvesOnlyComplete ==
  (gwCall.fn = "analyzeParkingSign" /\ gwOutcome.settled /\ gwOutcome.ok)
    => (/\ ~gwOutcome.value[1].isNull
        /\ RequiredFields \subseteq gwOutcome.value[1].keys)

\* C6: right after the analysis call rejects, the mounted view is in Failed:
\* loading is false, result is null and error is the fixed analysis-failure
\* message; and startCamera was called exactly when cameraNotFound was false.
C6_FailedAfterReject ==
  (phase = "mounted" /\ last.op = "analysisRejected")
    => (/\ ~loading
        /\ result = Null
        /\ error = ErrAnalysis
        /\ last.started <=> ~last.cnf)

\* C7: in EditView a late editImage completion never changes what is
\* displayed: while an original image is held, editedImage, when non-null, is
\* the result of editing that original image.
C7_NoStaleEdit ==
  (originalImage # NoImage /\ editedImage # Null)
    => editedImage[1].src = originalImage

\* the model response of the call under test holds no inline image part
NoInlinePart ==
  /\ gwCall.fn = "editImage"
  /\ ~gwCall.ed.throws
  /\ \/ gwCall.ed.candidates = Null
     \/ /\ gwCall.ed.candidates # Null
        /\ \A i \in 1..Len(gwCall.ed.candidates[1]) :
             ~gwCall.ed.candidates[1][i].inline

\* C8: a response without an inline image part makes editImage fail with the
\* 'no image returned' failure, an error outcome different from the one of a
\* throwing generateContent.
C8_DistinctFailures ==
  (gwOutcome.settled /\ NoInlinePart)
    => (/\ ~gwOutcome.ok
        /\ gwOutcome.error = NoImageFailure
        /\ gwOutcome.error # editImage([throws |-> TRUE, candidates |-> Null]).error)

\* C9: when the first candidate's parts contain an inline image part,
\* editImage resolves with the data of the first one in list order, whatever
\* precedes it and whatever follows it.
C9_FirstImageWins ==
  (/\ gwCall.fn = "editImage"
   /\ gwOutcome.settled
   /\ ~gwCall.ed.throws
   /\ gwCall.ed.candidates # Null)
    => LET ps == gwCall.ed.candidates[1]
       IN  \A i \in 1..Len(ps) :
             (ps[i].inline /\ \A j \in 1..(i - 1) : ~ps[j].inline)
               => (/\ gwOutcome.ok
                   /\ gwOutcome.value = Some(<<"data:image/png;base64,", ps[i].data>>))

\* C9 witness: a call has settled on parts [text, image 2, image 1]
C9_Witness ==
  /\ gwCall.fn = "editImage"
  /\ gwOutcome.settled
  /\ gwCall.ed.candidates = Some(<<TextPart, ImagePart(2), ImagePart(1)>>)
  /\ gwOutcome.value = Some(<<"data:image/png;base64,", 2>>)

\* C10: when both getUserMedia attempts of a startCamera call have thrown, the
\* fallback was tried exactly once, and the mounted view reports the camera
\* unavailable with the message for the error name, is not ready and holds no
\* stream handle.
C10_UnavailableAfterBothFail ==
  (phase = "mounted" /\ last.op = "gumFailed")
    => (/\ last.fallbacks = 1
        /\ cameraNotFound
        /\ error = cameraError(last.name)
        /\ ~isCameraReady
        /\ streamRef = NoStream)

\* C11: at most one editImage call is in flight per EditView, and a call is
\* started only while none is pending, an original image is held and the
\* prompt is non-blank.
C11_SingleFlightEdit ==
  /\ [](BagCardinality(editCalls) <= 1)
  /\ [][BagCardinality(editCalls') > BagCardinality(editCalls)
          => (/\ editCalls = EmptyBag
              /\ ~editLoading
              /\ originalImage # NoImage
              /\ trim(prompt) # <<>>)]_vars

\* C11 witness: a call is in flight for an image that was reset away, a new
\* image and a non-blank prompt are held, and the submit action is disabled
C11_Witness ==
  /\ BagCardinality(editCalls) = 1
  /\ originalImage # NoImage
  /\ originalImage \notin BagToSet(editCalls)
  /\ trim(prompt) # <<>>
  /\ ~ApplyEnabled

\* a startCamera call is waiting for its first getUserMedia
AcquisitionStarted == \E c \in BagToSet(camera) : c.pc = "preferred"

C13_OneWorkflowState ==
  phase = "mounted"
    => (/\ ~(loading /\ result # Null)
        /\ ~(loading /\ error # NoError)
        /\ ~(result # Null /\ error # NoError))

\* C14: whenever the shutter can be pressed, isCameraReady is true, streamRef
\* holds a stream whose tracks are not stopped, cameraNotFound is false and
\* loading is false; and in the mounted view isCameraReady implies that
\* streamRef is non-null.
C14_CaptureNeedsReadySession ==
  /\ CaptureEnabled(S)
       => (/\ isCameraReady
           /\ streamRef # NoStream
           /\ streamRef \in live
           /\ ~cameraNotFound
           /\ ~loading)
  /\ (phase = "mounted" /\ isCameraReady) => streamRef \in live
  /\ (phase = "mounted" /\ cameraNotFound) => ~CaptureEnabled(S)

\* C14 witness: the shutter is enabled on a session that was acquired through
\* the fallback configuration
C14_Witness ==
  /\ CaptureEnabled(S)
  /\ last.op = "gumResolved"
  /\ last.fallbacks = 1
  /\ isCameraReady
  /\ streamRef \in live

\* C15: in EditView loading is true exactly while an editImage call is in
\* flight, and the step in which the call settles ends loading: on success
\* editedImage is the returned image and error is null, on failure error is
\* the fixed edit-failure message and originalImage and editedImage are
\* unchanged.
C15_LoadingTracksCall ==
  /\ [](editLoading <=> editCalls # EmptyBag)
  /\ [][editLast'.settled
          => (/\ editLoading
              /\ ~editLoading'
              /\ editCalls' = EmptyBag
              /\ originalImage' = originalImage
              /\ IF editLast'.ok
                   THEN /\ editedImage' # Null
                        /\ editedImage'[1].url = editLast'.value[1]
                        /\ editedImage'[1].src \in BagToSet(editCalls)
                        /\ editError' = NoError
                   ELSE /\ editError' = EditViewFailure
                        /\ editedImage' = editedImage)]_vars

\* C15 witness: a call has just failed after an earlier one succeeded; the
\* earlier edited image is still held and loading is over
C15_Witness ==
  /\ editLast.settled
  /\ ~editLast.ok
  /\ editedImage # Null
  /\ originalImage # NoImage
  /\ editError = EditViewFailure
  /\ ~editLoading

====
